---------------------------- MODULE Spec2Model ----------------------------
(***************************************************************************)
(* Model of the denormalized-reference maintenance of beyond-ys-editor:    *)
(*   - the Edit Game page (src/src/pages/edit-game/index.tsx): changeGame  *)
(*     and handleSave, which diffs the submitted form against the locally  *)
(*     held snapshot currentGameData, queues patches in a Firestore write  *)
(*     batch and commits them;                                             *)
(*   - the Rebuild Staff Music Cache page                                  *)
(*     (src/src/pages/rebuild-staff-music-cache/index.tsx): handleSave;    *)
(*   - revalidatePaths (src/unnamed/part_000).                             *)
(* One editor works on one page.  The document store is the variable       *)
(* `store`; every other variable is state of the page.  An async handler   *)
(* is cut at its awaits: `pc` is the await it is suspended at.             *)
(*                                                                         *)
(* Firestore behaviour the handlers rely on (library, not under src/):     *)
(*   - a write batch is applied atomically, its writes in queue order;     *)
(*   - update() of a document that does not exist rejects the commit;      *)
(*   - set() without merge replaces the document;                          *)
(*   - an `in` query returns only the documents that exist, and is         *)
(*     rejected when its value list is empty.                              *)
(* Behaviour of fetch() that revalidatePaths relies on: the promise        *)
(* resolves with the endpoint's answer whatever its status, and rejects    *)
(* only when the request itself errors.                                    *)
(* `io` is the log of the requests and console messages of the handler run *)
(* under way, or of the last one; a submission starts it afresh.           *)
(***************************************************************************)
EXTENDS Integers, Sequences, FiniteSets, TLC

VARIABLES
    store,            \* the documents: games, characters, music, staffInfos, cache
    page,             \* the page the editor has open: "game" | "staff"
    charactersCache,  \* edit-game: local copy of cache/characters (onSnapshot)
    currentGameData,  \* edit-game: snapshot the next save is diffed against
    form,             \* edit-game: the form fields the code writes (id, hasCoverImage)
    args,             \* edit-game: the form values handleSave was called with
    isLoadingGame,    \* edit-game: a changeGame is pending
    lastGameId,       \* edit-game: id of the last game loaded
    pc,               \* the await the running handler is suspended at
    batch,            \* edit-game: patches queued in the write batch
    newData,          \* edit-game: payload of the game document being built
    chunks,           \* id chunks of the running `in` queries
    chunkStatus,      \* per chunk: "pending" | "ok"
    fetched,          \* per chunk: the documents its query returned
    io,               \* I/O requests issued by the running handler, in order
    attempts,         \* revalidatePaths: requests made in the current call
    notice,           \* last snackbar shown
    staffId,          \* rebuild: the submitted staff id
    staffMusicIds,    \* rebuild: musicIds read from the staff document
    role,             \* the role claim of the editor's token
    paths,            \* the paths handed to revalidatePaths by the running handler
    saves,            \* submissions handled so far in the session
    loads,            \* edit-game: the changeGame calls awaiting their getDoc
    savedFrom,        \* history: currentGameData as the running save found it
    lastSaved,        \* history: the values of the last save that succeeded
    other             \* a second editor's Edit Game page

vars == <<store, page, charactersCache, currentGameData, form, args, isLoadingGame,
          lastGameId, pc, batch, newData, chunks, chunkStatus, fetched, io,
          attempts, notice, staffId, staffMusicIds, role, paths, saves, loads,
          savedFrom, lastSaved, other>>

-----------------------------------------------------------------------------
(* Bounds and program constants *)

\* `in` query limit (edit-game/index.tsx:458, rebuild-staff-music-cache:107)
ChunkLimit == 30

\* revalidatePaths: one request plus two retries (part_000:120-133)
MaxAttempts == 3

\* number of music ids beyond one full chunk
ExtraIds == 1

\* number of submissions followed in one session
MaxSaves == 2

\* number of changeGame calls that may be pending at once
MaxLoads == 2

\* the store's limit on the writes of one batch (500 in Firestore), scaled to
\* the id sets of the model
MaxBatchWrites == 32

MaxMusic == ChunkLimit + ExtraIds

GameId == "G"
StaffId == "S"
\* a staff member nobody selects
BystanderStaffId == "T"
CharIds == {"A", "B", "C"}
MusicIds == 1..MaxMusic

NoId == ""

\* `role` when auth.currentUser is null
NotLoggedIn == "none"
NoDoc == [exists |-> FALSE]
EmptyMap == <<>>

\* release dates: the string "" is <<>>, "2000" is <<2000>>, "2000-01" is
\* <<2000, 1>>, "2000-01-01" is <<2000, 1, 1>>; JavaScript null is NullDate
NullDate == <<0>>
EmptyString == <<>>
SomeDate == <<2000, 1, 1>>

\* updatedAt: the times the server assigns are 1, 2, ...; JavaScript null is
\* NullTime, and the serverTimestamp() sentinel of a write not yet committed
\* is ServerTimestamp
NullTime == 0
ServerTimestamp == 0 - 1
FirstTime == 1

-----------------------------------------------------------------------------
(* Helpers *)

Range(s) == {s[i] : i \in DOMAIN s}

Includes(s, x) == x \in Range(s)

MapPut(m, k, v) == [x \in (DOMAIN m) \cup {k} |-> IF x = k THEN v ELSE m[x]]

MapDelete(m, k) == [x \in (DOMAIN m) \ {k} |-> m[x]]

Prefix(n) == [i \in 1..n |-> i]

RECURSIVE CountOf(_, _)
CountOf(s, x) ==
    IF s = <<>> THEN 0
    ELSE (IF Head(s) = x THEN 1 ELSE 0) + CountOf(Tail(s), x)

-----------------------------------------------------------------------------
(* Documents *)

\* the summary of a game embedded in characters and in cache/games
GameSummary(d) ==
    [name |-> d.name, category |-> d.category,
     releaseDate |-> d.releaseDate, hasCoverImage |-> d.hasCoverImage]

CharacterSummary(c) == [name |-> c]

MusicDoc(title, deps) ==
    [exists |-> TRUE, title |-> title, dependentGameIds |-> deps,
     updatedAt |-> FirstTime]

CharacterDoc(gameIds, cachedGames) ==
    [exists |-> TRUE, gameIds |-> gameIds, cachedGames |-> cachedGames,
     updatedAt |-> FirstTime]

StaffDoc(musicIds, cachedMusic) ==
    [exists |-> TRUE, name |-> "s", musicIds |-> musicIds,
     cachedMusic |-> cachedMusic, updatedAt |-> FirstTime]

\* the value changeGame puts in currentGameData when the game has no document
DefaultGameData ==
    [exists |-> TRUE, name |-> "", category |-> "", releaseDate |-> NullDate,
     hasCoverImage |-> FALSE, description |-> "",
     characterIds |-> <<>>, soundtrackIds |-> <<>>, updatedAt |-> NullTime,
     cachedSoundtracks |-> EmptyMap, cachedCharacters |-> EmptyMap]

-----------------------------------------------------------------------------
(* Release date conversions *)

\* formatISO(date, precision): the date cut to its precision
FormatISO(date, precision) ==
    CASE precision = "year" -> SubSeq(date, 1, 1)
      [] precision = "month" -> SubSeq(date, 1, 2)
      [] OTHER -> date

FormattedReleaseDate(f) ==
    IF f.releaseDate # NullDate
       /\ f.releaseDatePrecision \in {"day", "month", "year"}
    THEN FormatISO(f.releaseDate, f.releaseDatePrecision)
    ELSE EmptyString

NewHasCoverImage(f) == IF f.coverImage THEN TRUE ELSE f.hasCoverImage

-----------------------------------------------------------------------------
(* Write batch: patches and their application *)

NoValue == [none |-> TRUE]

\* batch.update(character, {cachedGames.<g>: v, updatedAt})
CharRefreshPatch(c, g, v) ==
    [col |-> "characters", id |-> c, kind |-> "refresh", game |-> g,
     value |-> v, stamp |-> TRUE,
     at |-> ServerTimestamp]

\* batch.update(character, {gameIds: arrayRemove(g), cachedGames.<g>: deleteField(), updatedAt})
CharRemovePatch(c, g) ==
    [col |-> "characters", id |-> c, kind |-> "remove", game |-> g,
     value |-> NoValue, stamp |-> TRUE,
     at |-> ServerTimestamp]

\* variant: the update of an added character without arrayUnion
CharAddPatchWithoutUnion(c, g, v) ==
    [col |-> "characters", id |-> c, kind |-> "refresh", game |-> g,
     value |-> v, stamp |-> TRUE,
     at |-> ServerTimestamp]

\* batch.update(character, {gameIds: arrayUnion(g), cachedGames.<g>: v, updatedAt})
CharAddPatch(c, g, v) ==
    [col |-> "characters", id |-> c, kind |-> "add", game |-> g,
     value |-> v, stamp |-> TRUE,
     at |-> ServerTimestamp]

\* batch.update(music, {dependentGameIds: arrayRemove(g), updatedAt})
MusicRemovePatch(m, g) ==
    [col |-> "music", id |-> m, kind |-> "depRemove", game |-> g,
     value |-> NoValue, stamp |-> TRUE,
     at |-> ServerTimestamp]

\* variant: the update of an added soundtrack without its updatedAt
MusicAddPatchUnstamped(m, g) ==
    [col |-> "music", id |-> m, kind |-> "depAdd", game |-> g,
     value |-> NoValue, stamp |-> FALSE,
     at |-> NullTime]

\* batch.update(music, {dependentGameIds: arrayUnion(g), updatedAt})
MusicAddPatch(m, g) ==
    [col |-> "music", id |-> m, kind |-> "depAdd", game |-> g,
     value |-> NoValue, stamp |-> TRUE,
     at |-> ServerTimestamp]

\* batch.update(cache/games, {<g>: v})
CacheGamesPatch(g, v) ==
    [col |-> "cache", id |-> "games", kind |-> "entry", game |-> g,
     value |-> v, stamp |-> FALSE,
     at |-> NullTime]

\* batch.set(game, newData)
GameSetPatch(g, data) ==
    [col |-> "games", id |-> g, kind |-> "set", game |-> g,
     value |-> data, stamp |-> TRUE,
     at |-> ServerTimestamp]

\* whether the document the patch targets exists (update() needs it to)
TargetExists(st, p) ==
    CASE p.col = "characters" -> st.characters[p.id].exists
      [] p.col = "music" -> st.music[p.id].exists
      [] OTHER -> TRUE

\* the updatedAt: serverTimestamp() of a write, resolved to the commit's time
Stamp(d, p) == IF p.stamp THEN [d EXCEPT !.updatedAt = p.at] ELSE d

\* variant: set(..., {merge: true}), which keeps the fields the payload lacks
SetResultMerging(old, p) ==
    IF old.exists
    THEN [k \in (DOMAIN old) \cup (DOMAIN p.value) |->
             IF k \in DOMAIN p.value THEN Stamp(p.value, p)[k] ELSE old[k]]
    ELSE Stamp(p.value, p)

\* batch.set(doc, data): the document becomes the payload, whatever it was
SetResult(old, p) == Stamp(p.value, p)

ApplyPatch(st, p) ==
    CASE p.kind = "refresh" ->
           [st EXCEPT !.characters[p.id] =
               Stamp([@ EXCEPT !.cachedGames = MapPut(@, p.game, p.value)], p)]
      [] p.kind = "remove" ->
           [st EXCEPT !.characters[p.id] =
               Stamp([@ EXCEPT !.gameIds = @ \ {p.game},
                               !.cachedGames = MapDelete(@, p.game)], p)]
      [] p.kind = "add" ->
           [st EXCEPT !.characters[p.id] =
               Stamp([@ EXCEPT !.gameIds = @ \cup {p.game},
                               !.cachedGames = MapPut(@, p.game, p.value)], p)]
      [] p.kind = "depRemove" ->
           [st EXCEPT !.music[p.id] =
               Stamp([@ EXCEPT !.dependentGameIds = @ \ {p.game}], p)]
      [] p.kind = "depAdd" ->
           [st EXCEPT !.music[p.id] =
               Stamp([@ EXCEPT !.dependentGameIds = @ \cup {p.game}], p)]
      [] p.kind = "entry" ->
           [st EXCEPT !.cache.games = MapPut(@, p.game, p.value)]
      [] OTHER ->
           [st EXCEPT !.games[p.id] = SetResult(@, p)]

\* the writes of a batch, applied in queue order
RECURSIVE ApplyBatch(_, _)
ApplyBatch(st, b) ==
    IF b = <<>> THEN st ELSE ApplyBatch(ApplyPatch(st, Head(b)), Tail(b))

\* a commit is accepted only if every update() targets an existing document
BatchAccepted(st, b) == \A i \in DOMAIN b : TargetExists(st, b[i])

\* the time the server assigns to a commit: later than every stored updatedAt
ServerTime(st) ==
    LET times == {st.games[g].updatedAt :
                      g \in {x \in DOMAIN st.games : st.games[x].exists}}
                 \cup {st.characters[c].updatedAt :
                      c \in {x \in DOMAIN st.characters : st.characters[x].exists}}
                 \cup {st.music[m].updatedAt :
                      m \in {x \in DOMAIN st.music : st.music[x].exists}}
                 \cup {st.staffInfos[i].updatedAt :
                      i \in {x \in DOMAIN st.staffInfos : st.staffInfos[x].exists}}
                 \cup {FirstTime}
    IN  1 + CHOOSE t \in times : \A u \in times : u <= t

\* the writes of a commit, their serverTimestamp() resolved to its time
Resolved(b, t) ==
    [i \in DOMAIN b |-> IF b[i].stamp THEN [b[i] EXCEPT !.at = t] ELSE b[i]]

\* variant: each write sent on its own, so that those that can land do
CommitResultWriteByWrite(st, b, ok) ==
    ApplyBatch(st, SelectSeq(Resolved(b, ServerTime(st)),
                             LAMBDA p : TargetExists(st, p)))

\* batch.commit(): all or nothing
CommitResult(st, b, ok) ==
    IF ok THEN ApplyBatch(st, Resolved(b, ServerTime(st))) ELSE st

-----------------------------------------------------------------------------
(* Edit Game, handleSave: the plan, as functions of the snapshot `cur`       *)
(* (currentGameData) and the submitted form values `f`                       *)

PrevCharacterIds(cur) == IF cur.exists THEN cur.characterIds ELSE <<>>

PrevSoundtrackIds(cur) == IF cur.exists THEN cur.soundtrackIds ELSE <<>>

NewGameCacheData(f) ==
    [name |-> f.name, category |-> f.category,
     releaseDate |-> FormattedReleaseDate(f),
     hasCoverImage |-> NewHasCoverImage(f)]

\* variant: the comparison without the category
IsCacheDataChangedWithoutCategory(cur, f) ==
    \/ ~cur.exists
    \/ cur.name # f.name
    \/ cur.releaseDate # FormattedReleaseDate(f)
    \/ cur.hasCoverImage # NewHasCoverImage(f)

\* variant: the snapshot's date compared with the date as the form holds it
IsCacheDataChangedRawDate(cur, f) ==
    \/ ~cur.exists
    \/ cur.name # f.name
    \/ cur.category # f.category
    \/ cur.releaseDate # f.releaseDate
    \/ cur.hasCoverImage # NewHasCoverImage(f)

IsCacheDataChanged(cur, f) ==
    \/ ~cur.exists
    \/ cur.name # f.name
    \/ cur.category # f.category
    \/ cur.releaseDate # FormattedReleaseDate(f)
    \/ cur.hasCoverImage # NewHasCoverImage(f)

RemovedSoundtrackIds(cur, f) ==
    SelectSeq(PrevSoundtrackIds(cur), LAMBDA m : ~Includes(f.soundtrackIds, m))

AddedSoundtrackIds(cur, f) ==
    SelectSeq(f.soundtrackIds, LAMBDA m : ~Includes(PrevSoundtrackIds(cur), m))

RemovedCharacterIds(cur, f) ==
    SelectSeq(PrevCharacterIds(cur), LAMBDA c : ~Includes(f.characterIds, c))

AddedCharacterIds(cur, f) ==
    SelectSeq(f.characterIds, LAMBDA c : ~Includes(PrevCharacterIds(cur), c))

RetainedCharacterIds(cur, f) ==
    SelectSeq(f.characterIds, LAMBDA c : Includes(PrevCharacterIds(cur), c))

\* "update these if cache fields have changed": every character of the
\* snapshot, then cache/games
DependentRefreshPatches(cur, f) ==
    IF IsCacheDataChanged(cur, f)
    THEN [i \in 1..Len(PrevCharacterIds(cur)) |->
             CharRefreshPatch(PrevCharacterIds(cur)[i], f.id, NewGameCacheData(f))]
         \o <<CacheGamesPatch(f.id, NewGameCacheData(f))>>
    ELSE <<>>

\* variant: the loop over the removed soundtracks left out
SoundtrackPatchesAddedOnly(cur, f) ==
    [i \in 1..Len(AddedSoundtrackIds(cur, f)) |->
        MusicAddPatch(AddedSoundtrackIds(cur, f)[i], f.id)]

SoundtrackPatches(cur, f) ==
    [i \in 1..Len(RemovedSoundtrackIds(cur, f)) |->
        MusicRemovePatch(RemovedSoundtrackIds(cur, f)[i], f.id)]
    \o [i \in 1..Len(AddedSoundtrackIds(cur, f)) |->
        MusicAddPatch(AddedSoundtrackIds(cur, f)[i], f.id)]

\* variant: the loop over the removed characters left out
CharacterPatchesAddedOnly(cur, f) ==
    [i \in 1..Len(AddedCharacterIds(cur, f)) |->
        CharAddPatch(AddedCharacterIds(cur, f)[i], f.id, NewGameCacheData(f))]

CharacterPatches(cur, f) ==
    [i \in 1..Len(RemovedCharacterIds(cur, f)) |->
        CharRemovePatch(RemovedCharacterIds(cur, f)[i], f.id)]
    \o [i \in 1..Len(AddedCharacterIds(cur, f)) |->
        CharAddPatch(AddedCharacterIds(cur, f)[i], f.id, NewGameCacheData(f))]

\* variant: the retained characters and cache/games refreshed on every save
RetainedRefreshPatchesAlways(cur, f) ==
    [i \in 1..Len(RetainedCharacterIds(cur, f)) |->
        CharRefreshPatch(RetainedCharacterIds(cur, f)[i], f.id,
                         NewGameCacheData(f))]
    \o <<CacheGamesPatch(f.id, NewGameCacheData(f))>>

\* "3. retained characters", then cache/games again
RetainedRefreshPatches(cur, f) ==
    IF IsCacheDataChanged(cur, f)
    THEN [i \in 1..Len(RetainedCharacterIds(cur, f)) |->
             CharRefreshPatch(RetainedCharacterIds(cur, f)[i], f.id,
                              NewGameCacheData(f))]
         \o <<CacheGamesPatch(f.id, NewGameCacheData(f))>>
    ELSE <<>>

\* variant: the last chunk is filled while it holds up to the limit
RECURSIVE ChunkReduceOneMore(_, _)
ChunkReduceOneMore(acc, ids) ==
    IF ids = <<>> THEN acc
    ELSE IF Len(acc[Len(acc)]) <= ChunkLimit
         THEN ChunkReduceOneMore([acc EXCEPT ![Len(acc)] = Append(@, Head(ids))],
                                 Tail(ids))
         ELSE ChunkReduceOneMore(Append(acc, <<Head(ids)>>), Tail(ids))

\* the chunking reduce: fill the last chunk up to the limit, then open a new one
RECURSIVE ChunkReduce(_, _)
ChunkReduce(acc, ids) ==
    IF ids = <<>> THEN acc
    ELSE IF Len(acc[Len(acc)]) < ChunkLimit
         THEN ChunkReduce([acc EXCEPT ![Len(acc)] = Append(@, Head(ids))],
                          Tail(ids))
         ELSE ChunkReduce(Append(acc, <<Head(ids)>>), Tail(ids))

ChunksOf(ids) == ChunkReduce(<< <<>> >>, ids)

\* getDocs(query(musicCollection, where(documentId(), 'in', chunk)))
QueryResult(st, chunk) ==
    [m \in {x \in Range(chunk) : st.music[x].exists} |-> st.music[m]]

RECURSIVE DeleteKeys(_, _)
DeleteKeys(map, ids) ==
    IF ids = <<>> THEN map ELSE DeleteKeys(MapDelete(map, Head(ids)), Tail(ids))

\* newMusicQuerySnap.forEach(snap => snap.forEach(doc => cached[doc.id] = doc.data()))
RECURSIVE PutResults(_, _)
PutResults(map, results) ==
    IF results = <<>> THEN map
    ELSE PutResults([x \in (DOMAIN map) \cup (DOMAIN Head(results)) |->
                        IF x \in DOMAIN Head(results)
                        THEN Head(results)[x] ELSE map[x]],
                    Tail(results))

\* the added characters found in the local charactersCache
RECURSIVE PutFoundCharacters(_, _, _)
PutFoundCharacters(map, ids, cc) ==
    IF ids = <<>> THEN map
    ELSE PutFoundCharacters(
             IF Head(ids) \in DOMAIN cc
             THEN MapPut(map, Head(ids), cc[Head(ids)]) ELSE map,
             Tail(ids), cc)

\* const newData: GameSchema = {...}; the two cached maps are the snapshot's
\* own objects
InitialNewData(cur, f) ==
    [exists |-> TRUE, name |-> f.name, category |-> f.category,
     releaseDate |-> FormattedReleaseDate(f),
     hasCoverImage |-> NewHasCoverImage(f), description |-> f.description,
     characterIds |-> f.characterIds, soundtrackIds |-> f.soundtrackIds,
     updatedAt |-> ServerTimestamp,
     cachedSoundtracks |-> IF cur.exists THEN cur.cachedSoundtracks ELSE EmptyMap,
     cachedCharacters |-> IF cur.exists THEN cur.cachedCharacters ELSE EmptyMap]

\* cachedCharacters after the removed and the added characters are handled
NewCachedCharacters(map, cur, f, cc) ==
    PutFoundCharacters(DeleteKeys(map, RemovedCharacterIds(cur, f)),
                       AddedCharacterIds(cur, f), cc)

-----------------------------------------------------------------------------
(* Initial states *)

InitialGame ==
    [exists |-> TRUE, name |-> "Ys I", category |-> "Ys Series",
     releaseDate |-> EmptyString, hasCoverImage |-> FALSE,
     description |-> "d1",
     characterIds |-> <<"A", "B">>, soundtrackIds |-> <<1>>,
     updatedAt |-> FirstTime,
     \* a field of the game schema that the form leaves out and newData does
     \* not carry
     dependentCharacterIds |-> <<"A">>,
     cachedSoundtracks |-> [m \in {1} |-> MusicDoc("t", {})],
     cachedCharacters |-> [c \in {"A", "B"} |-> CharacterSummary(c)]]

\* a store in which the game, its characters, its soundtracks and cache/games
\* agree; `missingMusic` have no document, `uncached` characters no entry in
\* cache/characters
InitialStore(gameExists, missingMusic, uncached, staffDoc) ==
    LET g == IF gameExists THEN InitialGame ELSE NoDoc
        gameChars == IF gameExists THEN Range(InitialGame.characterIds) ELSE {}
        gameMusic == IF gameExists THEN Range(InitialGame.soundtrackIds) ELSE {}
    IN  [games |-> [x \in {GameId} |-> g],
         characters |->
             [c \in CharIds |->
                 IF c \in gameChars
                 THEN CharacterDoc({GameId},
                                   [x \in {GameId} |-> GameSummary(InitialGame)])
                 ELSE CharacterDoc({}, EmptyMap)],
         music |->
             [m \in MusicIds |->
                 IF m \in missingMusic THEN NoDoc
                 ELSE MusicDoc("t", IF m \in gameMusic THEN {GameId} ELSE {})],
         staffInfos |-> [x \in {StaffId, BystanderStaffId} |->
                            IF x = StaffId THEN staffDoc
                            ELSE StaffDoc(<<2>>, EmptyMap)],
         cache |->
             [games |-> IF gameExists
                        THEN [x \in {GameId} |-> GameSummary(InitialGame)]
                        ELSE EmptyMap,
              characters |->
                  [c \in CharIds \ uncached |-> CharacterSummary(c)]]]

\* the form's defaultValues, of the fields the code itself writes later; the
\* fields the editor fills in are the inputs of SaveSubmit
InitialForm == [id |-> NoId, hasCoverImage |-> FALSE]

NoArgs == [id |-> NoId]

DefaultStaff == StaffDoc(<<1>>, [m \in {1} |-> MusicDoc("t", {})])

\* what the editor's session starts from
GameScenarios ==
    LET base == [role |-> "admin", gameExists |-> TRUE,
                 missingMusic |-> {}, uncached |-> {}]
    IN  {base,
         [base EXCEPT !.role = "user"],
         [base EXCEPT !.role = NotLoggedIn],
         [base EXCEPT !.gameExists = FALSE],
         [base EXCEPT !.missingMusic = {2}, !.uncached = {"C"}]}

StaffMusicLists == {<<>>, <<1, 2>>, Prefix(ChunkLimit), Prefix(MaxMusic)}

\* cachedMusic as found: empty, or a stale entry for 1 and an entry for 3
StaffCaches == {EmptyMap, [m \in {1, 3} |-> MusicDoc("old", {})]}

StaffScenarios ==
    {[role |-> r, staff |-> d, missingMusic |-> mm] :
        r \in {"admin"},
        d \in {StaffDoc(l, c) : l \in StaffMusicLists, c \in StaffCaches},
        mm \in {{}, {2}, {17}}}
    \cup {[role |-> "user", staff |-> DefaultStaff, missingMusic |-> {}],
          [role |-> NotLoggedIn, staff |-> DefaultStaff, missingMusic |-> {}],
          [role |-> "admin", staff |-> NoDoc, missingMusic |-> {}]}

\* the second editor's page, not open
ClosedPage ==
    [pc |-> "closed", snapshot |-> NoDoc, from |-> NoDoc, args |-> NoArgs,
     batch |-> <<>>, newData |-> NoDoc, chunks |-> <<>>, saves |-> 0,
     notice |-> "none"]

InitPage ==
    /\ currentGameData = NoDoc
    /\ form = InitialForm
    /\ args = NoArgs
    /\ isLoadingGame = FALSE
    /\ lastGameId = NoId
    /\ pc = "idle"
    /\ batch = <<>>
    /\ newData = NoDoc
    /\ chunks = <<>>
    /\ chunkStatus = <<>>
    /\ fetched = <<>>
    /\ io = <<>>
    /\ attempts = 0
    /\ notice = "none"
    /\ staffId = NoId
    /\ staffMusicIds = <<>>
    /\ paths = <<>>
    /\ saves = 0
    /\ loads = <<>>
    /\ savedFrom = NoDoc
    /\ lastSaved = NoArgs

Init ==
    /\ InitPage
    /\ other = ClosedPage
    /\ \/ \E sc \in GameScenarios :
            /\ page = "game"
            /\ role = sc.role
            /\ store = InitialStore(sc.gameExists, sc.missingMusic, sc.uncached,
                                    DefaultStaff)
       \/ \E sc \in StaffScenarios :
            /\ page = "staff"
            /\ role = sc.role
            /\ store = InitialStore(TRUE, sc.missingMusic, {}, sc.staff)
    \* the listener on cache/characters has delivered the document
    /\ charactersCache = store.cache.characters


-----------------------------------------------------------------------------
(* Edit Game: changeGame *)

\* what the handlers of the editor's page leave alone
fixedVars == <<page, role, charactersCache, other>>

handlerVars == <<batch, newData, chunks, chunkStatus, fetched, io, attempts,
                 paths>>

\* what changeGame leaves alone
saveVars == <<store, args, savedFrom, pc, saves, lastSaved, staffId,
              staffMusicIds, fixedVars, handlerVars>>

\* another game is picked in the Selection autocomplete, which stays in
\* place while a game loads: the field takes the id and changeGame(id)
\* starts (setIsLoadingGame(true); await getDoc).  The call keeps the
\* lastGameId of the render it was made in.
ChangeGameStart(id) ==
    /\ page = "game"
    /\ form.id # id
    /\ Len(loads) < MaxLoads
    /\ isLoadingGame' = TRUE
    /\ form' = [form EXCEPT !.id = id]
    /\ loads' = Append(loads, [id |-> id, lastGameId |-> lastGameId])
    /\ UNCHANGED <<currentGameData, lastGameId, notice, saveVars>>

\* the pending calls but the i-th
Settled(i) == [j \in 1..(Len(loads) - 1) |-> IF j < i THEN loads[j] ELSE loads[j + 1]]

\* getDoc of the i-th pending call resolved: setCurrentGameData and reset()
\* with the game's values, or with the defaults when the game has no
\* document; finally setIsLoadingGame(false)
ChangeGameLoaded(i) ==
    /\ page = "game"
    /\ i \in DOMAIN loads
    /\ LET id == loads[i].id
           game == store.games[id]
       IN  /\ IF game.exists
              THEN /\ currentGameData' = game
                   /\ form' = [id |-> id, hasCoverImage |-> game.hasCoverImage]
              ELSE /\ currentGameData' = DefaultGameData
                   /\ form' = [id |-> id, hasCoverImage |-> FALSE]
           /\ lastGameId' = id
    /\ isLoadingGame' = FALSE
    /\ loads' = Settled(i)
    /\ UNCHANGED <<notice, saveVars>>

\* getDoc of the i-th pending call rejected: the catch block puts the call's
\* lastGameId back in the field; finally setIsLoadingGame(false)
ChangeGameFailed(i) ==
    /\ page = "game"
    /\ i \in DOMAIN loads
    /\ form' = [form EXCEPT !.id = loads[i].lastGameId]
    /\ notice' = "error"
    /\ isLoadingGame' = FALSE
    /\ loads' = Settled(i)
    /\ UNCHANGED <<currentGameData, lastGameId, saveVars>>

-----------------------------------------------------------------------------
(* Edit Game: handleSave *)

\* what the editor may have typed when submitting
FieldEdits ==
    LET base == [name |-> "Ys I", category |-> "Ys Series",
                 releaseDate |-> NullDate, releaseDatePrecision |-> "unknown",
                 description |-> "d1", coverImage |-> FALSE]
    IN  {base,
         [base EXCEPT !.name = "Ys II"],
         [base EXCEPT !.category = "Gagharv Trilogy"],
         [base EXCEPT !.category = "Ys / Trails Series"],
         [base EXCEPT !.releaseDate = SomeDate, !.releaseDatePrecision = "year"],
         [base EXCEPT !.description = "d2"],
         [base EXCEPT !.coverImage = TRUE]}

CharLists == {<<>>, <<"A", "B">>, <<"A", "C">>}

SmallSoundLists == {<<>>, <<1>>, <<1, 2>>}

\* the edits that leave the four summary fields and the image alone or
\* change the name only
NameEdits ==
    {x \in FieldEdits : /\ x.description = "d1"
                        /\ ~x.coverImage
                        /\ x.category = "Ys Series"
                        /\ x.releaseDate = NullDate}

\* the submitted values: every edit with the lists of the initial game, the
\* name edits with every short list, and with the list of all music ids
SaveInputs ==
    {[fields |-> e, characterIds |-> <<"A", "B">>, soundtrackIds |-> <<1>>] :
        e \in FieldEdits}
    \cup
    {[fields |-> e, characterIds |-> c, soundtrackIds |-> l] :
        e \in NameEdits, c \in CharLists, l \in SmallSoundLists}
    \cup
    {[fields |-> e, characterIds |-> <<"A", "B">>,
      soundtrackIds |-> Prefix(MaxMusic)] : e \in NameEdits}

\* the values handleSave is called with
SubmittedValues(fm, in) ==
    [id |-> fm.id, name |-> in.fields.name, category |-> in.fields.category,
     releaseDate |-> in.fields.releaseDate,
     releaseDatePrecision |-> in.fields.releaseDatePrecision,
     description |-> in.fields.description,
     characterIds |-> in.characterIds, soundtrackIds |-> in.soundtrackIds,
     hasCoverImage |-> fm.hasCoverImage, coverImage |-> in.fields.coverImage]

\* the snapshot with its two cached maps as newData has mutated them
Aliased(cur, nd) ==
    IF cur.exists
    THEN [cur EXCEPT !.cachedSoundtracks = nd.cachedSoundtracks,
                     !.cachedCharacters = nd.cachedCharacters]
    ELSE cur

\* the handler ends (return, or the catch block)
EndHandler(n) ==
    /\ pc' = "idle"
    /\ notice' = n
    /\ args' = NoArgs
    /\ batch' = <<>>
    /\ newData' = NoDoc
    /\ chunks' = <<>>
    /\ chunkStatus' = <<>>
    /\ fetched' = <<>>
    /\ attempts' = 0
    /\ paths' = <<>>
    /\ savedFrom' = NoDoc

\* from the results of the soundtrack queries to the full batch
\* (handleSave from "newMusicQuerySnap.forEach" to "batch.set")
PlanAfterFetch(cur, f, nd, b, results, cc) ==
    LET nd2 == [nd EXCEPT
                  !.cachedSoundtracks = PutResults(@, results),
                  !.cachedCharacters = NewCachedCharacters(@, cur, f, cc)]
    IN  [newData |-> nd2,
         batch |-> b \o CharacterPatches(cur, f)
                     \o RetainedRefreshPatches(cur, f)
                     \o <<GameSetPatch(f.id, nd2)>>]

\* the patches queued before the soundtrack queries are awaited
PlanBeforeFetch(cur, f) ==
    [newData |-> [InitialNewData(cur, f) EXCEPT
                    !.cachedSoundtracks =
                        DeleteKeys(@, RemovedSoundtrackIds(cur, f))],
     batch |-> DependentRefreshPatches(cur, f) \o SoundtrackPatches(cur, f)]

\* variant: the check passes for every logged-in caller
IsLoggedInOnly(r) == r # NotLoggedIn

\* tokenRes?.claims?.role === 'admin' (tokenRes is undefined when nobody is
\* logged in)
IsAdmin(r) == r = "admin"

\* a path, as the pair of its segments: "/games/G" is <<"/games", "G">>
GamePath(id) == <<"/games", id>>
CharacterPath(c) == <<"/characters", c>>
StaffPath(sid) == <<"/staff", sid>>
GamesPath == <<"/games">>
YsSeriesPath == <<"/ys-series">>
TrailsSeriesPath == <<"/trails-series">>
GagharvTrilogyPath == <<"/gagharv-trilogy">>

\* the series pages of a category
SeriesPaths(category) ==
    (IF category \in {"Ys Series", "Ys / Trails Series"}
     THEN <<YsSeriesPath>> ELSE <<>>)
    \o (IF category \in {"Trails Series", "Ys / Trails Series"}
        THEN <<TrailsSeriesPath>> ELSE <<>>)
    \o (IF category = "Gagharv Trilogy" THEN <<GagharvTrilogyPath>> ELSE <<>>)

\* variant: the series pages taken from the snapshot's category
RevalidatedPathsOfSnapshot(cur, f) ==
    <<GamePath(f.id)>>
    \o (IF IsCacheDataChanged(cur, f) \/ f.coverImage
        THEN <<GamesPath>> \o SeriesPaths(cur.category) ELSE <<>>)
    \o [i \in 1..Len(RemovedCharacterIds(cur, f)) |->
           CharacterPath(RemovedCharacterIds(cur, f)[i])]
    \o [i \in 1..Len(AddedCharacterIds(cur, f)) |->
           CharacterPath(AddedCharacterIds(cur, f)[i])]

\* the first argument of the revalidatePaths call of handleSave
RevalidatedPaths(cur, f) ==
    <<GamePath(f.id)>>
    \o (IF IsCacheDataChanged(cur, f) \/ f.coverImage
        THEN <<GamesPath>> \o SeriesPaths(f.category) ELSE <<>>)
    \o [i \in 1..Len(RemovedCharacterIds(cur, f)) |->
           CharacterPath(RemovedCharacterIds(cur, f)[i])]
    \o [i \in 1..Len(AddedCharacterIds(cur, f)) |->
           CharacterPath(AddedCharacterIds(cur, f)[i])]

\* variant: a rejected write is not told from an accepted one
NextAfterWriteAlways(accepted) == "revalidate"

\* where the handler goes after `await batch.commit()` / `await updateDoc()`:
\* on to revalidatePaths, or to the catch block
NextAfterWrite(accepted) == IF accepted THEN "revalidate" ELSE "idle"

\* variant: the snapshot left as it was
SnapshotKept(prev, nd) == prev

\* setCurrentGameData((prev) => prev ? { ...prev, ...newData } : null)
SnapshotAfterSave(prev, nd) ==
    IF prev.exists
    THEN [k \in (DOMAIN prev) \cup (DOMAIN nd) |->
             IF k \in DOMAIN nd THEN nd[k] ELSE prev[k]]
    ELSE prev

\* the form is submitted; handleSave runs to its first await on the store
SaveSubmit(in, uploadOk) ==
    /\ page = "game"
    /\ pc = "idle"
    /\ saves < MaxSaves
    /\ saves' = saves + 1
    /\ form.id # NoId
    /\ ~isLoadingGame
    /\ in.fields.coverImage \/ uploadOk
    /\ LET f == SubmittedValues(form, in)
           cur == currentGameData
           uploads == IF f.coverImage THEN <<"upload">> ELSE <<>>
           p1 == PlanBeforeFetch(cur, f)
           added == AddedSoundtrackIds(cur, f)
           p2 == PlanAfterFetch(Aliased(cur, p1.newData), f, p1.newData,
                                p1.batch, <<>>, charactersCache)
       IN  IF ~IsAdmin(role)
           THEN /\ EndHandler("permission")
                /\ io' = <<>>
                /\ UNCHANGED currentGameData
           ELSE IF ~uploadOk
           THEN /\ EndHandler("error")
                /\ io' = uploads
                /\ UNCHANGED currentGameData
           ELSE IF added # <<>>
           THEN /\ pc' = "fetch"
                /\ args' = f
                /\ savedFrom' = cur
                /\ batch' = p1.batch
                /\ newData' = p1.newData
                /\ currentGameData' = Aliased(cur, p1.newData)
                /\ chunks' = ChunksOf(added)
                /\ chunkStatus' = [i \in 1..Len(ChunksOf(added)) |-> "pending"]
                /\ fetched' = [i \in 1..Len(ChunksOf(added)) |-> EmptyMap]
                /\ io' = uploads \o [i \in 1..Len(ChunksOf(added)) |-> "query"]
                /\ UNCHANGED <<attempts, notice, paths>>
           ELSE /\ pc' = "commit"
                /\ args' = f
                /\ savedFrom' = cur
                /\ batch' = p2.batch
                /\ newData' = p2.newData
                /\ currentGameData' = Aliased(cur, p2.newData)
                /\ io' = uploads
                /\ UNCHANGED <<chunks, chunkStatus, fetched, attempts, notice,
                               paths>>
    /\ UNCHANGED <<store, form, isLoadingGame, lastGameId, loads, staffId,
                   staffMusicIds, fixedVars, lastSaved>>

\* chunk query i is settled with `result`; after the last one the handler
\* goes on to its next await (the commit, or the staff update)
ChunkSettled(i, result, logged) ==
    /\ pc = "fetch"
    /\ i \in DOMAIN chunks
    /\ chunkStatus[i] = "pending"
    /\ LET results == [fetched EXCEPT ![i] = result]
           status == [chunkStatus EXCEPT ![i] = "ok"]
           allOk == \A j \in DOMAIN status : status[j] = "ok"
           p2 == PlanAfterFetch(currentGameData, args, newData, batch,
                                results, charactersCache)
       IN  /\ fetched' = results
           /\ chunkStatus' = status
           /\ io' = io \o logged
           /\ IF ~allOk
              THEN UNCHANGED <<pc, batch, newData, currentGameData>>
              ELSE IF page = "game"
              THEN /\ pc' = "commit"
                   /\ batch' = p2.batch
                   /\ newData' = p2.newData
                   /\ currentGameData' = Aliased(currentGameData, p2.newData)
              ELSE /\ pc' = "write"
                   /\ UNCHANGED <<batch, newData, currentGameData>>
    /\ UNCHANGED <<store, form, args, savedFrom, isLoadingGame, lastGameId, loads, chunks,
                   attempts, notice, staffId, staffMusicIds, fixedVars, paths,
                   saves, lastSaved>>

\* one of the chunk queries of Promise.all resolves
ChunkResolve(i) ==
    /\ i \in DOMAIN chunks
    /\ chunks[i] # <<>>
    /\ ChunkSettled(i, QueryResult(store, chunks[i]), <<"queryOk">>)

\* variant: the rejection is swallowed and counts as an empty result
ChunkRejectSwallowed(i) == ChunkSettled(i, EmptyMap, <<"queryFailed">>)

\* one of the chunk queries rejects: Promise.all rejects, the catch block runs
ChunkReject(i) ==
    /\ pc = "fetch"
    /\ i \in DOMAIN chunks
    /\ chunkStatus[i] = "pending"
    /\ EndHandler("error")
    /\ io' = Append(io, "queryFailed")
    /\ UNCHANGED <<store, currentGameData, form, isLoadingGame, lastGameId, loads,
                   staffId, staffMusicIds, fixedVars, saves, lastSaved>>

\* await batch.commit(): accepted and applied whole, or rejected
BatchCommit(ok) ==
    /\ pc = "commit"
    /\ LET accepted == ok /\ BatchAccepted(store, batch)
       IN  /\ store' = CommitResult(store, batch, accepted)
           /\ IF NextAfterWrite(accepted) = "revalidate"
              THEN /\ pc' = "revalidate"
                   /\ io' = io \o (IF accepted THEN <<"commit">>
                                   ELSE <<"commit", "rejected">>)
                   /\ attempts' = 0
                   /\ paths' = RevalidatedPaths(currentGameData, args)
                   /\ UNCHANGED <<args, savedFrom, batch, newData, chunks, chunkStatus,
                                  fetched, notice>>
              ELSE /\ EndHandler("error")
                   /\ io' = io \o <<"commit", "rejected">>
    /\ UNCHANGED <<currentGameData, form, isLoadingGame, lastGameId, loads, staffId,
                   staffMusicIds, fixedVars, saves, lastSaved>>

\* fetch() resolves with the endpoint's answer, whatever its status; it
\* rejects when the request itself errors
FetchRejects(outcome) == outcome = "networkError"

\* neither handleSave passes enqueueSnackbar to revalidatePaths
PassesSnackbar == FALSE

\* variant: a new attempt after every answer
NextAfterResponseAlwaysRetrying(outcome, n) ==
    IF n < MaxAttempts THEN "revalidate" ELSE "finish"

\* after attempt n: the next try block, or back in the caller
NextAfterResponse(outcome, n) ==
    IF FetchRejects(outcome) /\ n < MaxAttempts THEN "revalidate" ELSE "finish"

\* what the catch block of attempt n writes: console.warn('Retrying ...'), or
\* console.error and, if it was passed, the warning snackbar
CatchLog(n, snackbar) ==
    IF n < MaxAttempts THEN <<"console.warn">>
    ELSE <<"console.error">> \o (IF snackbar THEN <<"warning">> ELSE <<>>)

\* revalidatePaths: `await fn()` sends one request
RevalidateRequest ==
    /\ pc = "revalidate"
    /\ attempts < MaxAttempts
    /\ attempts' = attempts + 1
    /\ io' = Append(io, "revalidate")
    /\ pc' = "revalidating"
    /\ UNCHANGED <<store, currentGameData, form, args, savedFrom, isLoadingGame,
                   lastGameId, loads, batch, newData, chunks, chunkStatus, fetched,
                   notice, staffId, staffMusicIds, fixedVars, paths, saves, lastSaved>>

\* revalidatePaths: the request of `await fn()` is answered or errors
RevalidateResponse(outcome) ==
    /\ pc = "revalidating"
    /\ io' = io \o <<outcome>>
             \o (IF FetchRejects(outcome) THEN CatchLog(attempts, PassesSnackbar)
                 ELSE <<>>)
    /\ pc' = NextAfterResponse(outcome, attempts)
    /\ UNCHANGED <<store, currentGameData, form, args, savedFrom, isLoadingGame,
                   lastGameId, loads, batch, newData, chunks, chunkStatus, fetched,
                   attempts, notice, staffId, staffMusicIds, fixedVars, paths,
                   saves, lastSaved>>

\* after revalidatePaths: setCurrentGameData, the image fields, the snackbar
SaveFinish ==
    /\ page = "game"
    /\ pc = "finish"
    /\ currentGameData' = SnapshotAfterSave(currentGameData, newData)
    /\ form' = [form EXCEPT !.hasCoverImage = NewHasCoverImage(args)]
    /\ lastSaved' = args
    /\ EndHandler("success")
    /\ UNCHANGED <<store, isLoadingGame, lastGameId, loads, staffId,
                   staffMusicIds, fixedVars, io, saves>>

-----------------------------------------------------------------------------
(* Rebuild Staff Music Cache: handleSave *)

\* variant: deleteField() written after the fetched data, for the ids that
\* were cached
RebuiltCachedMusicDeletingLast(cachedMusic, musicIds, results) ==
    DeleteKeys(PutResults(cachedMusic, results),
               SelectSeq(musicIds, LAMBDA m : m \in DOMAIN cachedMusic))

\* the update sent to the staff document: deleteField() for every id of
\* musicIds, overridden by the data of every document the queries returned
RebuiltCachedMusic(cachedMusic, musicIds, results) ==
    PutResults(DeleteKeys(cachedMusic, musicIds), results)

\* variant: setDoc in the place of updateDoc
StaffUpdateAsSet(st, sid, cached) ==
    [st EXCEPT !.staffInfos[sid] =
        [exists |-> TRUE, cachedMusic |-> cached, updatedAt |-> ServerTime(st)]]

\* updateDoc(staff, {cachedMusic.<id>: ..., updatedAt: serverTimestamp()})
StaffUpdate(st, sid, cached) ==
    [st EXCEPT !.staffInfos[sid].cachedMusic = cached,
               !.staffInfos[sid].updatedAt = ServerTime(st)]

\* submit: the role check, then await getDoc(staff)
RebuildSubmit(sid) ==
    /\ page = "staff"
    /\ pc = "idle"
    /\ saves < MaxSaves
    /\ saves' = saves + 1
    /\ staffId' = sid
    /\ IF ~IsAdmin(role)
       THEN /\ EndHandler("permission")
            /\ io' = <<>>
       ELSE /\ pc' = "getDoc"
            /\ io' = <<"getDoc">>
            /\ UNCHANGED <<args, savedFrom, batch, newData, chunks, chunkStatus, fetched,
                           attempts, notice, paths>>
    /\ UNCHANGED <<store, currentGameData, form, isLoadingGame, lastGameId,
                   loads, staffMusicIds, fixedVars, lastSaved>>

\* getDoc resolved: no document, or the chunk queries are issued
RebuildGetDoc(ok) ==
    /\ page = "staff"
    /\ pc = "getDoc"
    /\ LET staffInfo == store.staffInfos[staffId]
       IN  IF ~ok \/ ~staffInfo.exists
           THEN /\ EndHandler("error")
                /\ UNCHANGED <<staffMusicIds, io>>
           ELSE /\ staffMusicIds' = staffInfo.musicIds
                /\ chunks' = ChunksOf(staffInfo.musicIds)
                /\ chunkStatus' =
                     [i \in 1..Len(ChunksOf(staffInfo.musicIds)) |-> "pending"]
                /\ fetched' =
                     [i \in 1..Len(ChunksOf(staffInfo.musicIds)) |-> EmptyMap]
                /\ io' = io \o
                     [i \in 1..Len(ChunksOf(staffInfo.musicIds)) |-> "query"]
                /\ pc' = "fetch"
                /\ UNCHANGED <<args, savedFrom, batch, newData, attempts, notice, paths>>
    /\ UNCHANGED <<store, currentGameData, form, isLoadingGame, lastGameId, loads,
                   staffId, fixedVars, saves, lastSaved>>

\* await updateDoc(staff, {...})
RebuildWrite(ok) ==
    /\ page = "staff"
    /\ pc = "write"
    /\ LET accepted == ok /\ store.staffInfos[staffId].exists
       IN  /\ store' = IF accepted
                       THEN StaffUpdate(store, staffId,
                                RebuiltCachedMusic(
                                    store.staffInfos[staffId].cachedMusic,
                                    staffMusicIds, fetched))
                       ELSE store
           /\ IF NextAfterWrite(accepted) = "revalidate"
              THEN /\ pc' = "revalidate"
                   /\ io' = io \o (IF accepted THEN <<"write">>
                                   ELSE <<"write", "rejected">>)
                   /\ attempts' = 0
                   /\ paths' = <<StaffPath(staffId)>>
                   /\ UNCHANGED <<args, savedFrom, batch, newData, chunks, chunkStatus,
                                  fetched, notice>>
              ELSE /\ EndHandler("error")
                   /\ io' = io \o <<"write", "rejected">>
    /\ UNCHANGED <<currentGameData, form, isLoadingGame, lastGameId, loads, staffId,
                   staffMusicIds, fixedVars, saves, lastSaved>>

\* after revalidatePaths: the snackbar
RebuildFinish ==
    /\ page = "staff"
    /\ pc = "finish"
    /\ EndHandler("success")
    /\ UNCHANGED <<store, currentGameData, form, isLoadingGame, lastGameId, loads,
                   staffId, staffMusicIds, fixedVars, io, saves, lastSaved>>

-----------------------------------------------------------------------------
(* Specification *)

Next ==
    \/ ChangeGameStart(GameId)
    \/ \E i \in 1..MaxLoads : ChangeGameLoaded(i)
    \/ \E i \in 1..MaxLoads : ChangeGameFailed(i)
    \/ \E in \in SaveInputs, uploadOk \in BOOLEAN : SaveSubmit(in, uploadOk)
    \/ \E i \in 1..2 : ChunkResolve(i)
    \/ \E i \in 1..2 : ChunkReject(i)
    \/ \E ok \in BOOLEAN : BatchCommit(ok)
    \/ RevalidateRequest
    \/ \E outcome \in {"ok", "httpError", "networkError"} :
          RevalidateResponse(outcome)
    \/ SaveFinish
    \/ RebuildSubmit(StaffId)
    \/ \E ok \in BOOLEAN : RebuildGetDoc(ok)
    \/ \E ok \in BOOLEAN : RebuildWrite(ok)
    \/ RebuildFinish

Spec == Init /\ [][Next]_vars

-----------------------------------------------------------------------------
(* The Selection autocomplete of Edit Game with several games to pick from  *)

LoadGameIds == {"G", "H", "I"}

\* a game of its own name, without characters or soundtracks
PlainGame(name) ==
    [InitialGame EXCEPT !.name = name, !.characterIds = <<>>,
                        !.soundtrackIds = <<>>, !.cachedSoundtracks = EmptyMap,
                        !.cachedCharacters = EmptyMap]

\* the store with the games G and H; I is listed in the aggregate cache
\* (the options of the autocomplete) but has no document
LoadStore ==
    LET st == InitialStore(TRUE, {}, {}, DefaultStaff)
    IN  [st EXCEPT
           !.games = [x \in LoadGameIds |->
                         CASE x = GameId -> InitialGame
                           [] x = "H" -> PlainGame("H")
                           [] OTHER -> NoDoc],
           !.cache.games = [x \in LoadGameIds |->
                               GameSummary(IF x = GameId THEN InitialGame
                                           ELSE PlainGame(x))]]

LoadInit ==
    /\ InitPage
    /\ other = ClosedPage
    /\ page = "game"
    /\ role = "admin"
    /\ store = LoadStore
    /\ charactersCache = store.cache.characters

LoadNext ==
    \/ \E id \in LoadGameIds : ChangeGameStart(id)
    \/ \E i \in 1..MaxLoads : ChangeGameLoaded(i)
    \/ \E i \in 1..MaxLoads : ChangeGameFailed(i)

LoadSpec == LoadInit /\ [][LoadNext]_vars

-----------------------------------------------------------------------------
(* Two editors on the same game.  The second editor runs the same Edit Game *)
(* page in another browser: its state is the record `other`, its handlers   *)
(* are changeGame and handleSave again, its requests go to the same store.  *)

\* what either editor submits in the race
RaceInputs ==
    {in \in SaveInputs :
        /\ in.fields \in NameEdits
        /\ <<in.fields.name, in.characterIds, in.soundtrackIds>>
              \in {<<"Ys II", (<<"A", "B">>), (<<1>>)>>,
                   <<"Ys I", (<<"A", "C">>), (<<1, 2>>)>>}}

\* what the second editor's handlers leave alone
firstEditorVars ==
    <<page, charactersCache, currentGameData, form, args, isLoadingGame,
      lastGameId, pc, batch, newData, chunks, chunkStatus, fetched, io,
      attempts, notice, staffId, staffMusicIds, role, paths, saves, loads,
      savedFrom, lastSaved>>

\* the second editor picks the game: changeGame reads its document
OtherChangeGame ==
    /\ other.pc \in {"closed", "idle"}
    /\ store.games[GameId].exists
    /\ other.snapshot # store.games[GameId]
    /\ other' = [other EXCEPT !.pc = "idle", !.snapshot = store.games[GameId]]
    /\ UNCHANGED <<store, firstEditorVars>>

\* the second editor submits: handleSave runs to its first await on the store
OtherSaveSubmit(in) ==
    /\ other.pc = "idle"
    /\ other.saves < MaxSaves
    /\ ~in.fields.coverImage
    /\ LET cur == other.snapshot
           f == SubmittedValues([id |-> GameId,
                                 hasCoverImage |-> cur.hasCoverImage], in)
           p1 == PlanBeforeFetch(cur, f)
           added == AddedSoundtrackIds(cur, f)
           p2 == PlanAfterFetch(Aliased(cur, p1.newData), f, p1.newData,
                                p1.batch, <<>>, charactersCache)
           p == IF added # <<>> THEN p1 ELSE p2
       IN  other' = [pc |-> IF added # <<>> THEN "fetch" ELSE "commit",
                     snapshot |-> Aliased(cur, p.newData),
                     from |-> cur,
                     args |-> f,
                     batch |-> p.batch,
                     newData |-> p.newData,
                     chunks |-> IF added # <<>> THEN ChunksOf(added) ELSE <<>>,
                     saves |-> other.saves + 1,
                     notice |-> "none"]
    /\ UNCHANGED <<store, firstEditorVars>>

\* the soundtrack queries of the second editor are answered (the race
\* inputs add no more ids than one query holds)
OtherFetched ==
    /\ other.pc = "fetch"
    /\ LET results == [i \in DOMAIN other.chunks |->
                          QueryResult(store, other.chunks[i])]
           p2 == PlanAfterFetch(other.snapshot, other.args, other.newData,
                                other.batch, results, charactersCache)
       IN  other' = [other EXCEPT !.pc = "commit",
                                  !.batch = p2.batch,
                                  !.newData = p2.newData,
                                  !.snapshot = Aliased(@, p2.newData)]
    /\ UNCHANGED <<store, firstEditorVars>>

\* variant: the commit carries the update time of the game document the
\* plan was made from as a precondition
OtherAcceptedIfFresh(st, o) ==
    /\ BatchAccepted(st, o.batch)
    /\ st.games[GameId].updatedAt = o.from.updatedAt

\* writeBatch(db); batch.update / batch.set carry no precondition on the
\* documents' update times: the commit is accepted when its targets exist
OtherAccepted(st, o) == BatchAccepted(st, o.batch)

\* await batch.commit() of the second editor, then the rest of its handler
\* (its invalidation requests do not reach the store)
OtherCommit ==
    /\ other.pc = "commit"
    /\ LET accepted == OtherAccepted(store, other)
       IN  /\ store' = CommitResult(store, other.batch, accepted)
           /\ other' = [other EXCEPT
                          !.pc = "idle",
                          !.snapshot = IF accepted
                                       THEN SnapshotAfterSave(@, other.newData)
                                       ELSE @,
                          !.notice = IF accepted THEN "success" ELSE "error"]
    /\ UNCHANGED firstEditorVars

\* both editors are admins; every document exists; the store and the
\* invalidation endpoint answer
RaceInit ==
    /\ InitPage
    /\ other = ClosedPage
    /\ page = "game"
    /\ role = "admin"
    /\ store = InitialStore(TRUE, {}, {}, DefaultStaff)
    /\ charactersCache = store.cache.characters

RaceNext ==
    \/ ChangeGameStart(GameId)
    \/ ChangeGameLoaded(1)
    \/ \E in \in RaceInputs : SaveSubmit(in, TRUE)
    \/ ChunkResolve(1)
    \/ BatchCommit(TRUE)
    \/ RevalidateRequest
    \/ RevalidateResponse("ok")
    \/ SaveFinish
    \/ OtherChangeGame
    \/ \E in \in RaceInputs : OtherSaveSubmit(in)
    \/ OtherFetched
    \/ OtherCommit

RaceSpec == RaceInit /\ [][RaceNext]_vars

-----------------------------------------------------------------------------
(* Properties *)

\* the save has just been committed (or is past its commit)
Committed == page = "game" /\ pc \in {"revalidate", "revalidating", "finish"}

\* the diff of the running save, from the snapshot and the submitted values
SummaryDiffers == GameSummary(currentGameData) # NewGameCacheData(args)
Removed == Range(RemovedCharacterIds(currentGameData, args))
Added == Range(AddedCharacterIds(currentGameData, args))
Retained == Range(RetainedCharacterIds(currentGameData, args))
RemovedSoundtracks == Range(RemovedSoundtrackIds(currentGameData, args))
AddedSoundtracks == Range(AddedSoundtrackIds(currentGameData, args))

PatchesOn(col, id) ==
    {i \in DOMAIN batch : batch[i].col = col /\ batch[i].id = id}

\* C1: every character listed in the stored game embeds the stored game's
\* summary under cachedGames[G], and so does cache/games, in every state that
\* committed Edit Game saves lead to
C1_CachesEqualStoredSummary ==
    LET g == store.games[GameId]
    IN  (page = "game" /\ g.exists) =>
           /\ \A c \in Range(g.characterIds) :
                 /\ store.characters[c].exists
                 /\ GameId \in DOMAIN store.characters[c].cachedGames
                 /\ store.characters[c].cachedGames[GameId] = GameSummary(g)
           /\ GameId \in DOMAIN store.cache.games
           /\ store.cache.games[GameId] = GameSummary(g)

\* two committed saves: the cover uploaded by one, the name and the
\* characters changed by the next
C1_Witness ==
    /\ Committed
    /\ saves = 2
    /\ store.games[GameId].hasCoverImage
    /\ store.games[GameId].name = "Ys II"
    /\ Includes(store.games[GameId].characterIds, "C")

\* C2: a save that ends without a successful commit leaves the whole store as
\* it was, whatever was queued; a successful commit applies the whole batch
C2_AllOrNothing ==
    [][(page = "game" /\ pc \in {"fetch", "commit"}) =>
          /\ (pc = "fetch" => store' = store)
          /\ (pc' = "idle" => store' = store)
          /\ (pc = "commit" /\ pc' = "revalidate"
                => store' = ApplyBatch(store,
                                       Resolved(batch, ServerTime(store))))]_vars

\* a batch of several patches that the store is about to reject
C2_Witness ==
    /\ page = "game"
    /\ pc = "commit"
    /\ Len(batch) > 1
    /\ ~BatchAccepted(store, batch)

\* C3: the batch holds exactly one patch on the game, one per added or
\* removed character and soundtrack, and, if the summary changed, one per
\* retained character and one on cache/games; no document is patched twice
C3_ExactPatchSet ==
    (page = "game" /\ pc = "commit") =>
       /\ Cardinality(PatchesOn("games", args.id)) = 1
       /\ \A c \in CharIds :
             Cardinality(PatchesOn("characters", c)) =
                IF c \in Added \cup Removed \/ (SummaryDiffers /\ c \in Retained)
                THEN 1 ELSE 0
       /\ \A m \in MusicIds :
             Cardinality(PatchesOn("music", m)) =
                IF m \in AddedSoundtracks \cup RemovedSoundtracks THEN 1 ELSE 0
       /\ Cardinality(PatchesOn("cache", "games")) =
             IF SummaryDiffers THEN 1 ELSE 0

\* C4: once the save is committed, a removed character no longer lists the
\* game nor embeds its summary, and a removed soundtrack no longer depends on it
C4_RemovedAreDetached ==
    Committed =>
       /\ \A c \in Removed :
             /\ GameId \notin store.characters[c].gameIds
             /\ GameId \notin DOMAIN store.characters[c].cachedGames
       /\ \A m \in RemovedSoundtracks :
             GameId \notin store.music[m].dependentGameIds

\* a committed save that removed a character and a soundtrack and changed
\* the summary
C4_Witness ==
    /\ Committed
    /\ Removed # {}
    /\ RemovedSoundtracks # {}
    /\ SummaryDiffers

\* C5: once the save is committed, an added character lists the game and
\* embeds the summary made of the submitted values, and an added soundtrack
\* depends on the game
C5_AddedAreAttached ==
    Committed =>
       /\ \A c \in Added :
             /\ GameId \in store.characters[c].gameIds
             /\ GameId \in DOMAIN store.characters[c].cachedGames
             /\ store.characters[c].cachedGames[GameId] =
                   [name |-> args.name, category |-> args.category,
                    releaseDate |-> store.games[GameId].releaseDate,
                    hasCoverImage |-> args.hasCoverImage \/ args.coverImage]
       /\ \A m \in AddedSoundtracks :
             GameId \in store.music[m].dependentGameIds

\* a committed save that added a character and a soundtrack and changed the
\* summary
C5_Witness ==
    /\ Committed
    /\ Added # {}
    /\ AddedSoundtracks # {}
    /\ SummaryDiffers

\* C6: the batch patches the retained characters and cache/games exactly when
\* one of name, category, releaseDate, hasCoverImage differs from the
\* snapshot; otherwise the commit leaves those documents as they were
C6_RefreshIffSummaryDiffers ==
    [][(page = "game" /\ pc = "commit") =>
          /\ \A c \in Retained :
                (PatchesOn("characters", c) # {}) <=> SummaryDiffers
          /\ (PatchesOn("cache", "games") # {}) <=> SummaryDiffers
          /\ ~SummaryDiffers =>
                /\ \A c \in Retained :
                      store'.characters[c] = store.characters[c]
                /\ store'.cache = store.cache]_vars

\* a committed save that kept a character, changed the lists or the
\* description only, and refreshed nothing
C6_Witness ==
    /\ Committed
    /\ Retained # {}
    /\ ~SummaryDiffers
    /\ Len(batch) > 1
    /\ store.games[GameId].description = "d1"

\* C7: a save that adds a soundtrack without a music document or a character
\* without an entry in charactersCache is never committed
C7_FailsClosed ==
    Committed =>
       /\ \A c \in Added : c \in DOMAIN charactersCache
       /\ \A m \in AddedSoundtracks : store.music[m].exists

\* C8: after the update of a rebuild, the keys of cachedMusic are the ids of
\* musicIds and each holds the music document's data
C8_RebuiltExactly ==
    (page = "staff" /\ pc \in {"revalidate", "revalidating", "finish"}) =>
       LET cached == store.staffInfos[staffId].cachedMusic
       IN  /\ DOMAIN cached = Range(staffMusicIds)
           /\ \A m \in DOMAIN cached : cached[m] = store.music[m]

\* C9: a rebuild whose musicIds name a missing music document never gets to
\* build or send its update
C9_MissingDocumentFails ==
    (page = "staff" /\ pc \in {"write", "revalidate", "revalidating", "finish"}) =>
       \A m \in Range(staffMusicIds) : store.music[m].exists

QueriesIssued == CountOf(io, "query")

QueriesNeeded(n) == (n + ChunkLimit - 1) \div ChunkLimit

\* C10: the number of `in` queries issued is ceil(N / 30), N being the number
\* of added soundtracks of a save or of musicIds of a rebuild
C10_QueryCount ==
    /\ (page = "game" /\ pc \in {"fetch", "commit"}) =>
          QueriesIssued =
             QueriesNeeded(Len(AddedSoundtrackIds(currentGameData, args)))
    /\ (page = "staff" /\ pc \in {"fetch", "write"}) =>
          QueriesIssued = QueriesNeeded(Len(staffMusicIds))

\* the id list the running handler resolves
ResolvedIds ==
    IF page = "game" THEN AddedSoundtrackIds(currentGameData, args)
    ELSE staffMusicIds

RECURSIVE Flattened(_)
Flattened(ss) == IF ss = <<>> THEN <<>> ELSE Head(ss) \o Flattened(Tail(ss))

\* C11: the chunks, put one after the other, are the id list; no chunk holds
\* more than 30 ids and every chunk but the last holds exactly 30
C11_ChunksPartitionTheIds ==
    pc = "fetch" =>
       /\ Flattened(chunks) = ResolvedIds
       /\ \A i \in DOMAIN chunks :
             /\ Len(chunks[i]) <= ChunkLimit
             /\ i < Len(chunks) => Len(chunks[i]) = ChunkLimit

\* more ids than one chunk takes: a full chunk and a second one
C11_Witness ==
    /\ pc = "fetch"
    /\ Len(ResolvedIds) > ChunkLimit
    /\ Len(chunks) = 2
    /\ Len(chunks[2]) = Len(ResolvedIds) - ChunkLimit

Writes == {"commit", "write"}

\* C12: once a chunk query has failed the handler is over, with the store as
\* it was and neither a write nor an invalidation request made, however many
\* of the other chunk queries were answered before
C12_ChunkFailureStopsAll ==
    [][/\ "queryFailed" \in Range(io') =>
             /\ pc' = "idle"
             /\ Range(io') \cap (Writes \cup {"revalidate"}) = {}
       /\ (pc = "fetch" /\ io' = Append(io, "queryFailed")) =>
             /\ store' = store
             /\ notice' = "error"]_vars

\* a run ended by a failed chunk query after another chunk was answered
C12_Witness ==
    /\ pc = "idle"
    /\ "queryOk" \in Range(io)
    /\ io[Len(io)] = "queryFailed"

\* C13: a rebuild that follows a successful rebuild of the same staff member
\* writes a cachedMusic equal to the one it finds
C13_RebuildIsIdempotent ==
    [][(page = "staff" /\ pc = "write" /\ pc' = "revalidate"
          /\ saves >= 2 /\ notice = "success") =>
          store'.staffInfos[staffId].cachedMusic =
             store.staffInfos[staffId].cachedMusic]_vars

\* the second of two rebuilds has written, the first one having succeeded
C13_Witness ==
    /\ page = "staff"
    /\ pc = "revalidate"
    /\ saves = 2
    /\ notice = "success"
    /\ staffMusicIds # <<>>
    /\ store.staffInfos[staffId].cachedMusic # EmptyMap

Requests == CountOf(io, "revalidate")

\* the step appends x to the log of a run under way
Issues(x) == Len(io') > Len(io) /\ SubSeq(io', 1, Len(io)) = io
             /\ io'[Len(io) + 1] = x

\* the answers the invalidation requests of the run have had, in order
Outcomes == SelectSeq(io, LAMBDA e : e \in {"ok", "httpError", "networkError"})

\* C14: an invalidation request is sent only when fewer than 3 were sent, all
\* of them have been answered, and none of them succeeded
C14_AtMostThreeSequentialRequests ==
    [][Issues("revalidate") =>
          /\ Requests < 3
          /\ Len(Outcomes) = Requests
          /\ \A k \in DOMAIN Outcomes : Outcomes[k] = "networkError"]_vars

\* the third request of one call is under way
C14_Witness ==
    /\ pc = "revalidating"
    /\ Requests = 3

\* C15: after an attempt that failed, by an error of the request or by a
\* failure answer of the endpoint, with fewer than 3 attempts made, the retry
\* is logged and the next attempt is due
C15_FailedAttemptIsRetried ==
    (/\ pc \in {"revalidate", "finish"}
     /\ Outcomes # <<>>
     /\ Outcomes[Len(Outcomes)] \in {"httpError", "networkError"}
     /\ Requests < 3) =>
       /\ pc = "revalidate"
       /\ io[Len(io)] = "console.warn"

\* C16: when the 3 attempts have failed, the failure is logged and a warning
\* is shown to the operator
C16_ExhaustionWarnsOperator ==
    (pc = "finish" /\ CountOf(io, "networkError") = 3) =>
       /\ "console.error" \in Range(io)
       /\ "warning" \in Range(io)

\* the snapshot holds every field of the stored game with the stored value,
\* but for updatedAt, of which it holds the sentinel
HoldsStoredGame(snapshot, stored) ==
    /\ DOMAIN stored \subseteq DOMAIN snapshot
    /\ \A k \in (DOMAIN stored) \ {"updatedAt"} : snapshot[k] = stored[k]

\* C17: after the commit of a save the store is not written again; when all
\* attempts have failed revalidatePaths returns to handleSave, which makes
\* the committed game its snapshot and reports success
C17_FailedInvalidationKeepsTheSave ==
    [][Committed =>
          /\ store' = store
          /\ pc = "revalidating" => pc' \in {"revalidate", "finish"}
          /\ (pc = "finish" /\ CountOf(io, "networkError") = 3) =>
                /\ pc' = "idle"
                /\ notice' = "success"
                /\ HoldsStoredGame(currentGameData', store.games[GameId])]_vars

\* a save that changed the name, ended after three failed attempts
C17_Witness ==
    /\ page = "game"
    /\ pc = "idle"
    /\ notice = "success"
    /\ CountOf(io, "networkError") = 3
    /\ "commit" \in Range(io)
    /\ store.games[GameId].name = "Ys II"
    /\ HoldsStoredGame(currentGameData, store.games[GameId])

\* C18: the write is issued with every chunk query answered; an invalidation
\* request is issued only after a write that was accepted
C18_ReadsThenWriteThenInvalidation ==
    [][/\ (\E w \in Writes : Issues(w)) =>
             /\ \A i \in DOMAIN chunkStatus : chunkStatus[i] = "ok"
             /\ CountOf(io, "queryOk") = CountOf(io, "query")
       /\ Issues("revalidate") =>
             /\ Range(io) \cap Writes # {}
             /\ Range(io) \cap {"rejected", "queryFailed"} = {}
       /\ Range(io') \cap Writes = {} => "revalidate" \notin Range(io')
       /\ "rejected" \in Range(io') => "revalidate" \notin Range(io')]_vars

\* two chunk queries answered, then the commit, then an invalidation request
C18_Witness ==
    /\ page = "game"
    /\ CountOf(io, "queryOk") = 2
    /\ "commit" \in Range(io)
    /\ Requests > 0

\* C19: for a caller who is not logged in or is no admin, a submission ends
\* at once with the permission error: no read, upload, write or invalidation
\* request is made and the store stays as it is
C19_NoAdminNoIO ==
    [][role # "admin" =>
          /\ pc' = "idle"
          /\ io' = <<>>
          /\ store' = store
          /\ saves' # saves => notice' = "permission"]_vars

\* a submission made without being logged in
C19_Witness ==
    /\ role = NotLoggedIn
    /\ saves > 0
    /\ notice = "permission"

\* the series pages of a category, as the membership table gives them
SeriesPagesOf(category) ==
    CASE category = "Ys Series" -> {<<"/ys-series">>}
      [] category = "Trails Series" -> {<<"/trails-series">>}
      [] category = "Ys / Trails Series" ->
            {<<"/ys-series">>, <<"/trails-series">>}
      [] category = "Gagharv Trilogy" -> {<<"/gagharv-trilogy">>}
      [] OTHER -> {}

\* C20: the paths sent for invalidation are /games/G, then /games and the
\* series pages of the submitted category if the summary changed or a cover
\* was uploaded, then /characters/c for the added and the removed characters
C20_InvalidatedPaths ==
    Committed =>
       Range(paths) =
          {<<"/games", GameId>>}
          \cup (IF SummaryDiffers \/ args.coverImage
                THEN {<<"/games">>} \cup SeriesPagesOf(args.category)
                ELSE {})
          \cup {<<"/characters", c>> : c \in Added \cup Removed}

\* a committed save that moved the game from Ys Series to Gagharv Trilogy
C20_Witness ==
    /\ Committed
    /\ currentGameData.category = "Ys Series"
    /\ args.category = "Gagharv Trilogy"
    /\ <<"/ys-series">> \notin Range(paths)

\* the documents of a collection that the batch patches
PatchedIds(col) == {batch[i].id : i \in {j \in DOMAIN batch : batch[j].col = col}}

\* C21 (as stated): every patch of the batch, the one on cache/games
\* included, carries an updatedAt stamp
C21_EveryPatchStamps ==
    (page = "game" /\ pc = "commit") =>
       \A i \in DOMAIN batch : batch[i].stamp

\* C21 (amended): the patches on the game, on characters and on music carry
\* the stamp and the one on cache/games carries none; once committed, the
\* game and every character and music document of the batch hold one and
\* the same updatedAt, later than that of every other document
C21_DocumentsShareTheCommitTime ==
    Committed =>
       LET t == store.games[GameId].updatedAt
       IN  /\ \A i \in DOMAIN batch : batch[i].stamp <=> batch[i].col # "cache"
           /\ \A c \in CharIds :
                 IF c \in PatchedIds("characters")
                 THEN store.characters[c].updatedAt = t
                 ELSE store.characters[c].updatedAt < t
           /\ \A m \in {x \in MusicIds : store.music[x].exists} :
                 IF m \in PatchedIds("music")
                 THEN store.music[m].updatedAt = t
                 ELSE store.music[m].updatedAt < t
           /\ DOMAIN store.cache.games \subseteq {GameId}

\* a committed save that patched characters, music and cache/games
C21_Witness ==
    /\ Committed
    /\ PatchedIds("characters") # {}
    /\ PatchedIds("music") # {}
    /\ PatchedIds("cache") # {}
    /\ \E m \in PatchedIds("music") : GameId \in store.music[m].dependentGameIds

\* C22: a save that has planned more writes than the store takes in one
\* batch ends before batch.commit() is called
C22_TooLargeFailsBeforeCommit ==
    (page = "game" /\ Len(batch) > MaxBatchWrites) =>
       pc \notin {"commit", "revalidate", "revalidating", "finish"}

\* C23: once the save is committed the stored game has the fields of the
\* payload and no other, each with the payload's value (updatedAt with the
\* commit's time): the submitted values, the submitted id lists and the two
\* adjusted maps; a field that only the document stored before had is gone
C23_StoredGameIsThePayload ==
    Committed =>
       LET g == store.games[GameId]
       IN  /\ DOMAIN g = DOMAIN newData
           /\ \A k \in (DOMAIN g) \ {"updatedAt"} : g[k] = newData[k]
           /\ g.name = args.name
           /\ g.category = args.category
           /\ g.description = args.description
           /\ g.characterIds = args.characterIds
           /\ g.soundtrackIds = args.soundtrackIds
           /\ g.hasCoverImage = (args.hasCoverImage \/ args.coverImage)
           /\ "dependentCharacterIds" \notin DOMAIN g

\* a committed save of a game whose snapshot has a field the payload lacks
\* and another description
C23_Witness ==
    /\ Committed
    /\ "dependentCharacterIds" \in DOMAIN currentGameData
    /\ currentGameData.description # args.description
    /\ currentGameData.characterIds # args.characterIds

\* what changeGame makes of the document of a game
LoadedData(id) ==
    IF store.games[id].exists THEN store.games[id] ELSE DefaultGameData

\* C25: whenever the form can be submitted (a game id is in the field and
\* isLoadingGame is false), currentGameData is the snapshot of that game
C25_FormIdMatchesSnapshot ==
    (page = "game" /\ form.id # NoId /\ ~isLoadingGame) =>
       currentGameData = LoadedData(form.id)

\* C24: two saves planned from the same snapshot both commit: neither
\* commit is rejected or found stale, each applies its whole batch to the
\* store as the commit finds it, and the game document is the payload of
\* the save that commits last
C24_StaleSavesBothCommit ==
    [][/\ (pc = "commit" /\ pc' # "commit") =>
             /\ pc' = "revalidate"
             /\ store' = ApplyBatch(store, Resolved(batch, ServerTime(store)))
             /\ store'.games[GameId] =
                   [newData EXCEPT !.updatedAt = ServerTime(store)]
       /\ (other.pc = "commit" /\ other'.pc # "commit") =>
             /\ other'.notice = "success"
             /\ store' = ApplyBatch(store,
                                    Resolved(other.batch, ServerTime(store)))
             /\ store'.games[GameId] =
                   [other.newData EXCEPT !.updatedAt = ServerTime(store)]]_vars

\* both editors have committed a save planned from the same snapshot, with
\* different values
C24_Witness ==
    /\ Committed
    /\ other.notice = "success"
    /\ savedFrom.exists
    /\ other.from = savedFrom
    /\ other.args # args

\* C26: when a save fails at a chunk query or at the commit, currentGameData
\* is what it was when the save started, its two cached maps included
C26_FailedSaveKeepsTheSnapshot ==
    [][(/\ page = "game"
        /\ pc \in {"fetch", "commit"}
        /\ pc' = "idle"
        /\ notice' = "error") => currentGameData' = savedFrom]_vars

\* every music document exists and every character is in the aggregate
\* cache the page holds
CleanStore ==
    /\ \A m \in MusicIds : store.music[m].exists
    /\ CharIds \subseteq DOMAIN charactersCache

\* C27: in a clean store the stored game's cachedSoundtracks has the keys of
\* its soundtrackIds and its cachedCharacters the keys of its characterIds,
\* whatever saves were made
C27_CachedKeysMatchTheLists ==
    (page = "game" /\ CleanStore /\ store.games[GameId].exists) =>
       /\ DOMAIN store.games[GameId].cachedSoundtracks =
             Range(store.games[GameId].soundtrackIds)
       /\ DOMAIN store.games[GameId].cachedCharacters =
             Range(store.games[GameId].characterIds)

\* the characters and the soundtracks the stored game lists
StoredCharacters ==
    IF store.games[GameId].exists
    THEN Range(store.games[GameId].characterIds) ELSE {}
StoredSoundtracks ==
    IF store.games[GameId].exists
    THEN Range(store.games[GameId].soundtrackIds) ELSE {}

\* C28: with a single editor saving, the game is in a character's gameIds
\* exactly when the character is in the game's characterIds, and in a music
\* document's dependentGameIds exactly when the track is in the game's
\* soundtrackIds
C28_ReverseReferencesMatch ==
    page = "game" =>
       /\ \A c \in CharIds :
             (GameId \in store.characters[c].gameIds) <=>
                (c \in StoredCharacters)
       /\ \A x \in MusicIds :
             (store.music[x].exists /\ GameId \in store.music[x].dependentGameIds)
                <=> (x \in StoredSoundtracks)

\* the second save of a session is committed, after a first one that took
\* a character and a soundtrack away, and has put both back
C28_Witness ==
    /\ Committed
    /\ saves = 2
    /\ lastSaved # NoArgs
    /\ lastSaved.characterIds = <<>>
    /\ lastSaved.soundtrackIds = <<>>
    /\ StoredCharacters = {"A", "B"}
    /\ StoredSoundtracks = {1, 2}

\* the two submissions carry the same values in the fields of the form
SameValues(f, g) ==
    /\ f.id = g.id
    /\ f.name = g.name
    /\ f.category = g.category
    /\ f.releaseDate = g.releaseDate
    /\ f.releaseDatePrecision = g.releaseDatePrecision
    /\ f.description = g.description
    /\ f.characterIds = g.characterIds
    /\ f.soundtrackIds = g.soundtrackIds

\* C29: a save with the values of the save that succeeded before it, and no
\* image selected, queues one patch, the set of the game document, and asks
\* for the invalidation of the game's page only
C29_SameValuesAgain ==
    (/\ page = "game"
     /\ pc \in {"commit", "revalidate", "revalidating", "finish"}
     /\ lastSaved # NoArgs
     /\ SameValues(args, lastSaved)
     /\ ~args.coverImage) =>
       /\ Len(batch) = 1
       /\ batch[1].col = "games"
       /\ batch[1].kind = "set"
       /\ batch[1].id = GameId
       /\ Committed => paths = <<GamePath(GameId)>>

\* the second save, with the values of a first one that had renamed the
\* game, is committed
C29_Witness ==
    /\ Committed
    /\ lastSaved # NoArgs
    /\ SameValues(args, lastSaved)
    /\ ~args.coverImage
    /\ lastSaved.name = "Ys II"
    /\ store.games[GameId].name = "Ys II"

\* a staff document without the two fields the rebuild writes
StaffFrame(d) ==
    IF d.exists THEN [k \in (DOMAIN d) \ {"cachedMusic", "updatedAt"} |-> d[k]]
    ELSE d

\* C30: a step of the rebuild page changes nothing in the store but
\* cachedMusic and updatedAt of the selected staff document; when that
\* document does not exist the handler writes nothing and asks for no
\* invalidation
C30_RebuildFrame ==
    [][page = "staff" =>
         /\ store'.games = store.games
         /\ store'.characters = store.characters
         /\ store'.music = store.music
         /\ store'.cache = store.cache
         /\ DOMAIN store'.staffInfos = DOMAIN store.staffInfos
         /\ \A x \in DOMAIN store.staffInfos :
               IF x = staffId'
               THEN StaffFrame(store'.staffInfos[x]) =
                       StaffFrame(store.staffInfos[x])
               ELSE store'.staffInfos[x] = store.staffInfos[x]
         /\ ~store.staffInfos[staffId'].exists =>
               /\ store' = store
               /\ "write" \notin Range(io')
               /\ "revalidate" \notin Range(io')]_vars

\* a rebuild has rewritten the cache of a staff member with the tracks 1
\* and 2, whose cache held entries for 1 and 3
C30_Witness ==
    /\ page = "staff"
    /\ pc = "revalidate"
    /\ staffMusicIds = <<1, 2>>
    /\ store.staffInfos[StaffId].updatedAt > FirstTime
    /\ DOMAIN store.staffInfos[StaffId].cachedMusic = {1, 2, 3}
    /\ store.staffInfos[StaffId].cachedMusic[1].title = "t"
    /\ store.staffInfos[BystanderStaffId].updatedAt = FirstTime

=============================================================================
